---------------------------- MODULE Spec2Model ----------------------------
(***************************************************************************)
(* Model of cdp_comp.py: the Eurocode 2 / ABAQUS concrete-damaged-         *)
(* plasticity compression pipeline.                                        *)
(*                                                                         *)
(* The script computes in IEEE-754 binary64 (Python float, numpy float64). *)
(* Several of its comparisons sit exactly on rounding boundaries           *)
(* (18 * 0.0001 > 0.0018 is TRUE in binary64), so the model keeps the      *)
(* arithmetic bit-exact: a double is a sign, a 53-bit significand and an   *)
(* exponent, the significand held as a little-endian sequence of 15-bit    *)
(* limbs because TLC's integers are 32 bits wide.                          *)
(***************************************************************************)
EXTENDS Integers, Sequences, FiniteSets

(***************************************************************************)
(* Natural numbers of arbitrary size: <<l1, l2, ...>> is                   *)
(* l1 + l2*Base + ..., no limb of the top is zero, <<>> is 0.              *)
(***************************************************************************)
LimbBits == 15

Base == 2 ^ LimbBits

Min(x, y) == IF x <= y THEN x ELSE y

Max(x, y) == IF x >= y THEN x ELSE y

\* TLC evaluates on a small stack: the operators below are written without
\* recursion over the limbs wherever a closed form exists.  An intermediate
\* value is the argument of a local operator, which TLC evaluates once,
\* rather than a LET constant, which it may evaluate at every use.
Limb(a, i) == IF i >= 1 /\ i <= Len(a) THEN a[i] ELSE 0

BNNorm(a) ==
    IF \A i \in 1..Len(a) : a[i] = 0 THEN <<>>
    ELSE SubSeq(a, 1, CHOOSE i \in 1..Len(a) :
                          a[i] # 0 /\ \A j \in (i + 1)..Len(a) : a[j] = 0)

\* 0 <= n < 2^31
BNFromInt(n) ==
    BNNorm(<<(n % Base), ((n \div Base) % Base), (n \div (Base * Base))>>)

\* a < 2^31
BNToInt(a) == Limb(a, 1) + (Base * Limb(a, 2)) + (Base * Base * Limb(a, 3))

\* the carry into limb i is 1 when some lower limb generates one and every
\* limb between passes it on
BNAdd(a, b) ==
    LET n        == Max(Len(a), Len(b))
        S(i)     == Limb(a, i) + Limb(b, i)
        Carry(i) == \E j \in 1..(i - 1) :
                       S(j) >= Base /\ \A k \in (j + 1)..(i - 1) : S(k) = Base - 1
    IN  BNNorm([i \in 1..(n + 1) |->
                  ((S(i) + (IF Carry(i) THEN 1 ELSE 0)) % Base)])

\* a - b for a >= b
BNSub(a, b) ==
    LET Borrow(i) == \E j \in 1..(i - 1) :
                        a[j] < Limb(b, j)
                        /\ \A k \in (j + 1)..(i - 1) : a[k] = Limb(b, k)
    IN  BNNorm([i \in 1..Len(a) |->
                  (a[i] - Limb(b, i) - (IF Borrow(i) THEN 1 ELSE 0) + Base)
                  % Base])

\* -1, 0, 1 as a < b, a = b, a > b
BNCmp(a, b) ==
    IF Len(a) < Len(b) THEN -1
    ELSE IF Len(a) > Len(b) THEN 1
    ELSE IF a = b THEN 0
    ELSE LET At(t) == IF a[t] < b[t] THEN -1 ELSE 1
         IN  At(CHOOSE i \in 1..Len(a) :
                    a[i] # b[i] /\ \A j \in (i + 1)..Len(a) : a[j] = b[j])

\* a * k for 0 <= k <= Base: the low and the high halves of the limb products
BNMulSmall(a, k) ==
    BNAdd(BNNorm([i \in 1..Len(a) |-> (a[i] * k) % Base]),
          BNNorm([i \in 1..(Len(a) + 1) |->
                    IF i = 1 THEN 0 ELSE (a[i - 1] * k) \div Base]))

RECURSIVE SeqSum(_, _, _)
SeqSum(f, lo, hi) ==
    IF lo > hi THEN 0
    ELSE IF lo = hi THEN f[lo]
    ELSE SeqSum(f, lo, (lo + hi) \div 2)
         + SeqSum(f, ((lo + hi) \div 2) + 1, hi)

\* column k collects the products a[i] * b[k + 1 - i], low halves in column
\* k and high halves in column k + 1; a column stays below 2^20
BNMul(a, b) ==
    IF a = <<>> \/ b = <<>> THEN <<>>
    ELSE LET From(k) == Max(1, k + 1 - Len(b))
             To(k)   == Min(Len(a), k)
             Lo(k) == SeqSum([i \in From(k)..To(k) |->
                                (a[i] * b[k + 1 - i]) % Base], From(k), To(k))
             Hi(k) == SeqSum([i \in From(k)..To(k) |->
                                (a[i] * b[k + 1 - i]) \div Base], From(k), To(k))
             Cols(C) ==
                 BNAdd(BNNorm([k \in 1..Len(C) |-> (C[k] % Base)]),
                       BNNorm([k \in 1..(Len(C) + 1) |->
                                 IF k = 1 THEN 0 ELSE (C[k - 1] \div Base)]))
         IN  Cols([k \in 1..(Len(a) + Len(b)) |->
                     Lo(k) + (IF k = 1 THEN 0 ELSE Hi(k - 1))])

\* a * 2^bits
BNShl(a, bits) ==
    LET Sh(q, r) ==
            BNNorm([i \in 1..(Len(a) + q + 1) |->
                      ((Limb(a, i - q) * (2 ^ r)) % Base)
                      + (Limb(a, i - q - 1) \div (2 ^ (LimbBits - r)))])
    IN  Sh(bits \div LimbBits, bits % LimbBits)

\* floor(a / 2^bits)
BNShr(a, bits) ==
    LET Sh(q, r) ==
            BNNorm([i \in 1..Max(Len(a) - q, 0) |->
                      (a[i + q] \div (2 ^ r))
                      + ((Limb(a, i + q + 1) % (2 ^ r)) * (2 ^ (LimbBits - r)))])
    IN  Sh(bits \div LimbBits, bits % LimbBits)

\* a mod 2^bits
BNLowBits(a, bits) ==
    LET Low(q, r) ==
            BNNorm([i \in 1..Min(q + 1, Len(a)) |->
                      IF i <= q THEN a[i] ELSE a[i] % (2 ^ r)])
    IN  Low(bits \div LimbBits, bits % LimbBits)

\* the number of bits of 0 <= n < 2^30
IntBitLen(n) == CHOOSE k \in 0..30 : n < 2 ^ k /\ (k = 0 \/ n >= 2 ^ (k - 1))

BNBitLen(a) ==
    IF a = <<>> THEN 0 ELSE LimbBits * (Len(a) - 1) + IntBitLen(a[Len(a)])

BNIsOdd(a) == a # <<>> /\ a[1] % 2 = 1

\* the limbs k + 1, k + 2, ... of a
BNDropTop(a, k) == IF k >= Len(a) THEN <<>> ELSE SubSeq(a, k + 1, Len(a))

(***************************************************************************)
(* Long division, one quotient limb per step.  d is scaled so that its top *)
(* limb has its top bit set; a quotient limb is estimated from the two top *)
(* limbs of the running remainder, from below and at most 3 short.         *)
(***************************************************************************)
BNDigit(r, d) ==
    LET Fix3(est, r2) ==
            IF BNCmp(r2, d) < 0 THEN [q |-> est + 2, r |-> r2]
            ELSE [q |-> est + 3, r |-> BNSub(r2, d)]
        Fix2(est, r1) ==
            IF BNCmp(r1, d) < 0 THEN [q |-> est + 1, r |-> r1]
            ELSE Fix3(est, BNSub(r1, d))
        Fix1(est, r0) ==
            IF BNCmp(r0, d) < 0 THEN [q |-> est, r |-> r0]
            ELSE Fix2(est, BNSub(r0, d))
        Try(est) == Fix1(est, BNSub(r, BNMulSmall(d, est)))
    IN  Try(((Limb(r, Len(d) + 1) * Base) + Limb(r, Len(d))) \div (d[Len(d)] + 1))

\* the quotient's limbs i, i - 1, ..., 1 and the last remainder; r is the
\* remainder of the limbs above i
RECURSIVE BNDivAt(_, _, _, _)
BNDivAt(a, d, i, r) ==
    IF i = 0 THEN [q |-> <<>>, r |-> r]
    ELSE LET Put(s, rest) == [q |-> rest.q \o <<s.q>>, r |-> rest.r]
             \* the test makes TLC evaluate this step before it descends
             Step(s) == IF s.q >= Base THEN [q |-> <<>>, r |-> <<>>]
                        ELSE Put(s, BNDivAt(a, d, i - 1, s.r))
         IN  Step(BNDigit(BNNorm(<<a[i]>> \o r), d))

\* floor(a / d) and whether a remainder is left, d > 0; the top Len(d) - 1
\* limbs of a are below d and start the remainder
BNDivMod(a, d) ==
    LET Out(res) == [q |-> BNNorm(res.q), inexact |-> res.r # <<>>]
        Run(as, ds, k) == Out(BNDivAt(as, ds, k, BNDropTop(as, k)))
        Scaled(as, ds) == Run(as, ds, Max(Len(as) - Len(ds) + 1, 0))
        By(sh) == Scaled(BNShl(a, sh), BNShl(d, sh))
    IN  By(LimbBits - IntBitLen(d[Len(d)]))

(***************************************************************************)
(* Binary floating point.  A finite number is sign * m * 2^e with m a      *)
(* natural of exactly p bits (p = MantBits for a double), zero has m = <<>>.*)
(* The sign of a zero is not kept: the script never divides by a negative  *)
(* zero and never prints the sign of one.  Exponent range is not modelled: *)
(* no value of the pipeline comes near 2^1024 or 2^-1022.                  *)
(***************************************************************************)
MantBits == 53

Fin(s, m, e) == [k |-> "fin", s |-> s, m |-> m, e |-> e]

Zero == Fin(1, <<>>, 0)

Inf(s) == [k |-> "inf", s |-> s, m |-> <<>>, e |-> 0]

NaN == [k |-> "nan", s |-> 1, m |-> <<>>, e |-> 0]

IsNaN(a) == a.k = "nan"

IsInf(a) == a.k = "inf"

IsZero(a) == a.k = "fin" /\ a.m = <<>>

IsFinite(a) == a.k = "fin"

\* sign * (N + f) * 2^E rounded to p bits, nearest, ties to even; sticky says
\* that a fraction 0 < f < 1 was cut off N (N then has more than p bits)
RoundTo(p, s, N, E, sticky) ==
    IF N = <<>> THEN Zero
    ELSE LET Pack(sh, m1) ==
                 IF BNBitLen(m1) > p THEN Fin(s, BNShr(m1, 1), E + sh + 1)
                 ELSE Fin(s, m1, E + sh)
             Up(q, c) == c > 0 \/ (c = 0 /\ (sticky \/ BNIsOdd(q)))
             Cut(sh, q, c) ==
                 Pack(sh, IF Up(q, c) THEN BNAdd(q, <<1>>) ELSE q)
             Fit(bl) ==
                 IF bl <= p THEN Fin(s, BNShl(N, p - bl), E - (p - bl))
                 ELSE Cut(bl - p, BNShr(N, bl - p),
                          BNCmp(BNLowBits(N, bl - p), BNShl(<<1>>, bl - p - 1)))
         IN  Fit(BNBitLen(N))

\* the position of the leading bit: |a| is in [2^(Top - 1), 2^Top)
Top(a) == a.e + BNBitLen(a.m)

\* |a| against |b| for finite non-zero a, b: -1, 0, 1
MagCmp(a, b) ==
    IF Top(a) < Top(b) THEN -1
    ELSE IF Top(a) > Top(b) THEN 1
    ELSE BNCmp(BNShl(a.m, a.e - Min(a.e, b.e)), BNShl(b.m, b.e - Min(a.e, b.e)))

\* a against b, neither a NaN: -1, 0, 1
FlCmp(a, b) ==
    LET Signed(sa, sb) ==
            IF sa # sb THEN (IF sa < sb THEN -1 ELSE 1)
            ELSE IF sa = 0 THEN 0
            ELSE IF IsInf(a) /\ IsInf(b) THEN 0
            ELSE IF IsInf(a) THEN sa
            ELSE IF IsInf(b) THEN -sa
            ELSE sa * MagCmp(a, b)
    IN  Signed(IF IsZero(a) THEN 0 ELSE a.s, IF IsZero(b) THEN 0 ELSE b.s)

\* the comparisons of IEEE 754: every one is false on a NaN
FlLt(a, b) == ~IsNaN(a) /\ ~IsNaN(b) /\ FlCmp(a, b) < 0

FlLe(a, b) == ~IsNaN(a) /\ ~IsNaN(b) /\ FlCmp(a, b) <= 0

FlGt(a, b) == ~IsNaN(a) /\ ~IsNaN(b) /\ FlCmp(a, b) > 0

FlGe(a, b) == ~IsNaN(a) /\ ~IsNaN(b) /\ FlCmp(a, b) >= 0

FlEq(a, b) == ~IsNaN(a) /\ ~IsNaN(b) /\ FlCmp(a, b) = 0

FlNeg(a) == IF IsNaN(a) \/ IsZero(a) THEN a ELSE [a EXCEPT !.s = -a.s]

FlAbs(a) == IF IsNaN(a) THEN a ELSE [a EXCEPT !.s = 1]

\* an operand more than AbsorbBits binary places below the other cannot
\* change the rounded sum
AbsorbBits == 3 * MantBits

\* a + b exactly, for finite a, b, as an unnormalised sign, magnitude and
\* exponent
ExactSum(a, b) ==
    IF IsZero(a) THEN b
    ELSE IF IsZero(b) THEN a
    ELSE IF Top(a) - Top(b) > AbsorbBits THEN a
    ELSE IF Top(b) - Top(a) > AbsorbBits THEN b
    ELSE LET Diff(lo, na, nb, c) ==
                 IF c = 0 THEN Zero
                 ELSE IF c > 0 THEN Fin(a.s, BNSub(na, nb), lo)
                 ELSE Fin(b.s, BNSub(nb, na), lo)
             Aligned(lo, na, nb) ==
                 IF a.s = b.s THEN Fin(a.s, BNAdd(na, nb), lo)
                 ELSE Diff(lo, na, nb, BNCmp(na, nb))
             At(lo) == Aligned(lo, BNShl(a.m, a.e - lo), BNShl(b.m, b.e - lo))
         IN  At(Min(a.e, b.e))

AddP(p, a, b) ==
    IF IsNaN(a) \/ IsNaN(b) THEN NaN
    ELSE IF IsInf(a) /\ IsInf(b) THEN (IF a.s = b.s THEN a ELSE NaN)
    ELSE IF IsInf(a) THEN a
    ELSE IF IsInf(b) THEN b
    ELSE LET Rnd(t) == RoundTo(p, t.s, t.m, t.e, FALSE)
         IN  Rnd(ExactSum(a, b))

MulP(p, a, b) ==
    IF IsNaN(a) \/ IsNaN(b) THEN NaN
    ELSE IF (IsInf(a) /\ IsZero(b)) \/ (IsZero(a) /\ IsInf(b)) THEN NaN
    ELSE IF IsInf(a) \/ IsInf(b) THEN Inf(a.s * b.s)
    ELSE IF IsZero(a) \/ IsZero(b) THEN Zero
    ELSE RoundTo(p, a.s * b.s, BNMul(a.m, b.m), a.e + b.e, FALSE)

\* numpy's division: x / 0 is an infinity (a warning, no exception), 0 / 0 and
\* inf / inf are NaN
DivP(p, a, b) ==
    IF IsNaN(a) \/ IsNaN(b) THEN NaN
    ELSE IF (IsInf(a) /\ IsInf(b)) \/ (IsZero(a) /\ IsZero(b)) THEN NaN
    ELSE IF IsInf(a) THEN Inf(a.s * b.s)
    ELSE IF IsInf(b) \/ IsZero(a) THEN Zero
    ELSE IF IsZero(b) THEN Inf(a.s)
    ELSE LET Quot(sh, d) ==
                 RoundTo(p, a.s * b.s, d.q, a.e - b.e - sh, d.inexact)
             By(sh) == Quot(sh, BNDivMod(BNShl(a.m, sh), b.m))
         IN  By(Max(0, p + 3 + BNBitLen(b.m) - BNBitLen(a.m)))

FlAdd(a, b) == AddP(MantBits, a, b)

FlSub(a, b) == AddP(MantBits, a, FlNeg(b))

FlMul(a, b) == MulP(MantBits, a, b)

FlDiv(a, b) == DivP(MantBits, a, b)

\* an integer |n| < 2^31 as a double (exact)
FlInt(n) ==
    IF n < 0 THEN RoundTo(MantBits, -1, BNFromInt(-n), 0, FALSE)
    ELSE RoundTo(MantBits, 1, BNFromInt(n), 0, FALSE)

\* the double a decimal literal n / 10^digits denotes, the nearest one;
\* |n| < 2^31, digits <= 9
FlDec(n, digits) ==
    DivP(MantBits, Fin(IF n < 0 THEN -1 ELSE 1,
                       BNFromInt(IF n < 0 THEN -n ELSE n), 0),
         Fin(1, BNFromInt(10 ^ digits), 0))

\* ceil(a) as an integer, for finite 0 <= a < 2^31
FlCeil(a) ==
    IF IsZero(a) \/ a.s < 0 THEN 0
    ELSE IF a.e >= 0 THEN BNToInt(BNShl(a.m, a.e))
    ELSE BNToInt(BNShr(a.m, -a.e))
         + (IF BNLowBits(a.m, -a.e) = <<>> THEN 0 ELSE 1)

(***************************************************************************)
(* x ** y of the C library, for x > 0: exp(y * ln x), computed with        *)
(* WorkBits significant bits and rounded once to a double.  The library's  *)
(* pow is accurate to within one unit of the last place; this one is the   *)
(* correctly rounded value except when x^y lies within 2^-80 (relative) of *)
(* the midpoint of two doubles.                                            *)
(***************************************************************************)
WorkBits == MantBits + 32

WAdd(a, b) == AddP(WorkBits, a, b)

WSub(a, b) == AddP(WorkBits, a, FlNeg(b))

WMul(a, b) == MulP(WorkBits, a, b)

WDiv(a, b) == DivP(WorkBits, a, b)

WInt(n) == IF n < 0 THEN Fin(-1, BNFromInt(-n), 0) ELSE Fin(1, BNFromInt(n), 0)

\* z^k for k >= 1, by squaring: shallow recursion, TLC's stack is small
RECURSIVE WPowInt(_, _)
WPowInt(z, k) ==
    IF k = 1 THEN z
    ELSE LET Odd(h2) == IF k % 2 = 0 THEN h2 ELSE WMul(h2, z)
             Sq(h) == Odd(WMul(h, h))
         IN  Sq(WPowInt(z, k \div 2))

\* sum of z2^n / (2n + 1) for n in lo..hi, by halves
RECURSIVE AtanhSum(_, _, _)
AtanhSum(z2, lo, hi) ==
    IF lo = hi
    THEN (IF lo = 0 THEN WInt(1) ELSE WDiv(WPowInt(z2, lo), WInt(2 * lo + 1)))
    ELSE WAdd(AtanhSum(z2, lo, (lo + hi) \div 2),
              AtanhSum(z2, ((lo + hi) \div 2) + 1, hi))

\* atanh(z) = z + z^3/3 + z^5/5 + ..., the terms up to z^(2 terms + 1)
Atanh(z, terms) == WMul(z, AtanhSum(WMul(z, z), 0, terms))

\* ln 2 to WorkBits bits, the nearest: 26814832747904039722237046 * 2^-85,
\* the magnitude in limbs
Ln2 == Fin(1, <<15478, 27378, 26556, 30673, 25647, 709>>, -WorkBits)

\* ln(x) for finite x > 0: x = M * 2^E with M in [2/3, 4/3),
\* ln M = 2 atanh(z), z = (M - 1) / (M + 1), |z| <= 1/5: z^37 / 37 < 2^-90
FlLn(x) ==
    LET Series(E, z) == WAdd(WMul(WInt(E), Ln2), WMul(WInt(2), Atanh(z, 18)))
        Of(E, M) == Series(E, WDiv(WSub(M, WInt(1)), WAdd(M, WInt(1))))
        Scale(E) == Of(E, Fin(1, x.m, x.e - E))
    IN  Scale(IF FlLt(Fin(1, x.m, x.e - Top(x)), WDiv(WInt(2), WInt(3)))
              THEN Top(x) - 1 ELSE Top(x))

\* floor(a) as an integer, |a| < 2^31
FlFloor(a) ==
    IF IsZero(a) THEN 0
    ELSE IF a.s > 0 THEN (IF a.e >= 0 THEN BNToInt(BNShl(a.m, a.e))
                          ELSE BNToInt(BNShr(a.m, -a.e)))
    ELSE -FlCeil(FlAbs(a))

\* lo * (lo + 1) * ... * hi, by halves
RECURSIVE BNProd(_, _)
BNProd(lo, hi) ==
    IF lo = hi THEN <<lo>>
    ELSE BNMul(BNProd(lo, (lo + hi) \div 2), BNProd(((lo + hi) \div 2) + 1, hi))

\* sum of r^n / n! for n in lo..hi, 1 <= lo, by halves
RECURSIVE ExpSum(_, _, _)
ExpSum(r, lo, hi) ==
    IF lo = hi THEN WDiv(WPowInt(r, lo), Fin(1, BNProd(1, lo), 0))
    ELSE WAdd(ExpSum(r, lo, (lo + hi) \div 2),
              ExpSum(r, ((lo + hi) \div 2) + 1, hi))

\* exp(w) = 2^q * exp(r), w = q ln 2 + r, |r| <= ln(2)/2: the terms up to
\* r^24 / 24!, the first left out below 2^-100
FlExp(w) ==
    LET Scale(q, er) == Fin(1, er.m, er.e + q)
        Reduced(q, r) ==
            Scale(q, IF IsZero(r) THEN WInt(1)
                     ELSE WAdd(WInt(1), ExpSum(r, 1, 24)))
        Of(q) == Reduced(q, WSub(w, WMul(WInt(q), Ln2)))
    IN  Of(FlFloor(WAdd(WDiv(w, Ln2), Fin(1, <<1>>, -1))))

FlPow(x, y) ==
    IF IsZero(x) THEN Zero
    ELSE LET Rnd(v) == RoundTo(MantBits, 1, v.m, v.e, TRUE)
         IN  Rnd(FlExp(WMul(y, FlLn(x))))

\* x ** 4: the exact fourth power, rounded once
FlPow4(x) ==
    IF IsZero(x) THEN Zero
    ELSE LET Sq(m2) == RoundTo(MantBits, 1, BNMul(m2, m2), 4 * x.e, FALSE)
         IN  Sq(BNMul(x.m, x.m))

(***************************************************************************)
(* The built-ins the script calls.                                         *)
(***************************************************************************)
\* float(input(...)) on a decimal numeral with three fractional digits,
\* given in thousandths
ParseMilli(n) == FlDec(n, 3)

\* float(input(...)) on a numeral ip.f1f2 whose fraction has twelve digits,
\* f1 the first six and f2 the last six: the nearest double
ParseLong(ip, f1, f2) ==
    LET Num(mil) ==
            BNAdd(BNMul(BNAdd(BNMul(BNFromInt(ip), mil), BNFromInt(f1)), mil),
                  BNFromInt(f2))
        Den(mil) == BNMul(mil, mil)
    IN  DivP(MantBits, Fin(1, Num(BNFromInt(10 ^ 6)), 0),
             Fin(1, Den(BNFromInt(10 ^ 6)), 0))

\* the integer nearest to x * 10^4, ties to even, for finite 0 <= x < 100
Scaled4(x) ==
    IF IsZero(x) THEN 0
    ELSE LET Near(q, c) ==
                 BNToInt(q) + (IF c > 0 \/ (c = 0 /\ BNIsOdd(q)) THEN 1 ELSE 0)
             Of(N) ==
                 IF x.e >= 0 THEN BNToInt(BNShl(N, x.e))
                 ELSE Near(BNShr(N, -x.e),
                           BNCmp(BNLowBits(N, -x.e), BNShl(<<1>>, (-x.e) - 1)))
         IN  Of(BNMulSmall(x.m, 10 ^ 4))

\* round(x, 4): the double nearest to the four-decimal numeral nearest to x
Round4(x) == FlDec(Scaled4(x), 4)

\* np.arange(0, stop, step): ceil((stop - 0) / step) elements, element i
\* is 0 + i * step
Arange(stop, step) ==
    [i \in 1..FlCeil(FlDiv(stop, step)) |-> FlMul(FlInt(i - 1), step)]

\* np.maximum of two numbers: a NaN operand is the result
FlMaximum(a, b) ==
    IF IsNaN(a) THEN a
    ELSE IF IsNaN(b) THEN b
    ELSE IF FlCmp(a, b) >= 0 THEN a ELSE b

\* np.maximum.accumulate(arr), the first n elements of it
RECURSIVE Accumulate(_, _)
Accumulate(arr, n) ==
    IF n = 0 THEN <<>>
    ELSE IF n = 1 THEN <<arr[1]>>
    ELSE LET Put(prev) == Append(prev, FlMaximum(prev[n - 1], arr[n]))
         IN  Put(Accumulate(arr, n - 1))

ensure_non_negative_and_monotonic(arr) ==
    Accumulate([i \in 1..Len(arr) |-> FlMaximum(arr[i], Zero)], Len(arr))

\* np.argmax of a boolean array given as the set of its true positions
\* (1-based here): the 0-based index of the first True, 0 when there is none
ArgmaxTrue(S) ==
    IF S = {} THEN 0
    ELSE (CHOOSE i \in S : \A j \in S : i <= j) - 1

(***************************************************************************)
(* The script, one action per statement group.  Arrays are sequences: the  *)
(* element at Python index i is element i + 1 here.  start_index keeps     *)
(* Python's 0-based value.                                                 *)
(***************************************************************************)
VARIABLES pc, fck, f_cm, E_cm_GPa, E_cm_MPa, eps_c1, eps_cu1, strain_values,
          eta_values, k, stress_values, elastic_strain_values,
          inelastic_strain_values, mask, damage_values, plastic_strain_values,
          raw_inelastic, raw_damage, raw_plastic,
          start_index, export_data, export_damage_data

vars == <<pc, fck, f_cm, E_cm_GPa, E_cm_MPa, eps_c1, eps_cu1, strain_values,
          eta_values, k, stress_values, elastic_strain_values,
          inelastic_strain_values, mask, damage_values, plastic_strain_values,
          raw_inelastic, raw_damage, raw_plastic,
          start_index, export_data, export_damage_data>>

\* a name the script has not assigned yet
Unset == [k |-> "unset", s |-> 1, m |-> <<>>, e |-> 0]

\* the largest f_ck of the regular inputs, in tens of MPa
MaxFckTens == 13

\* f_ck values entered, in thousandths of MPa: a regular grid and the
\* values next to the points where the script's behaviour changes
FckMilli ==
    {10000 * n : n \in 1..MaxFckTens}
    \cup {12000, 49000, 49999, 50000, 50001, 89993, 123000}

Inputs ==
    {ParseMilli(n) : n \in FckMilli} \cup {ParseLong(129, 154369, 857976)}

Init ==
    /\ pc = "input"
    /\ fck = Unset /\ f_cm = Unset /\ E_cm_GPa = Unset /\ E_cm_MPa = Unset
    /\ eps_c1 = Unset /\ eps_cu1 = Unset /\ k = Unset
    /\ strain_values = <<>> /\ eta_values = <<>> /\ stress_values = <<>>
    /\ elastic_strain_values = <<>> /\ inelastic_strain_values = <<>>
    /\ mask = <<>> /\ damage_values = <<>> /\ plastic_strain_values = <<>>
    /\ raw_inelastic = <<>> /\ raw_damage = <<>> /\ raw_plastic = <<>>
    /\ start_index = -1 /\ export_data = <<>> /\ export_damage_data = <<>>

\* line 9: fck = float(input(...))
ReadFck ==
    /\ pc = "input"
    /\ \E x \in Inputs : fck' = x
    /\ pc' = "f_cm"
    /\ UNCHANGED <<f_cm, E_cm_GPa, E_cm_MPa, eps_c1, eps_cu1, strain_values,
                   eta_values, k, stress_values, elastic_strain_values,
                   inelastic_strain_values, mask, damage_values,
                   plastic_strain_values, raw_inelastic, raw_damage,
                   raw_plastic, start_index, export_data, export_damage_data>>

\* line 12: f_cm = fck + 8
CalcFcm ==
    /\ pc = "f_cm"
    /\ f_cm' = FlAdd(fck, FlInt(8))
    /\ pc' = "E_cm"
    /\ UNCHANGED <<fck, E_cm_GPa, E_cm_MPa, eps_c1, eps_cu1, strain_values,
                   eta_values, k, stress_values, elastic_strain_values,
                   inelastic_strain_values, mask, damage_values,
                   plastic_strain_values, raw_inelastic, raw_damage,
                   raw_plastic, start_index, export_data, export_damage_data>>

\* lines 16-17: E_cm_GPa = 22 * ((f_cm / 10) ** 0.3); E_cm_MPa = E_cm_GPa * 1000
CalcEcm ==
    /\ pc = "E_cm"
    /\ E_cm_GPa' = FlMul(FlInt(22), FlPow(FlDiv(f_cm, FlInt(10)), FlDec(3, 1)))
    /\ E_cm_MPa' = FlMul(E_cm_GPa', FlInt(1000))
    /\ pc' = "eps_c1"
    /\ UNCHANGED <<fck, f_cm, eps_c1, eps_cu1, strain_values,
                   eta_values, k, stress_values, elastic_strain_values,
                   inelastic_strain_values, mask, damage_values,
                   plastic_strain_values, raw_inelastic, raw_damage,
                   raw_plastic, start_index, export_data, export_damage_data>>

\* CalcEpsC1 without the cap at 0.0028
CalcEpsC1_NoCap ==
    /\ pc = "eps_c1"
    /\ eps_c1' =
         Round4(FlMul(FlMul(FlDec(7, 1), FlPow(f_cm, FlDec(31, 2))),
                      FlDec(1, 3)))
    /\ pc' = "eps_cu1"
    /\ UNCHANGED <<fck, f_cm, E_cm_GPa, E_cm_MPa, eps_cu1, strain_values,
                   eta_values, k, stress_values, elastic_strain_values,
                   inelastic_strain_values, mask, damage_values,
                   plastic_strain_values, raw_inelastic, raw_damage,
                   raw_plastic, start_index, export_data, export_damage_data>>

\* lines 22-27: eps_c1 = 0.7 * (f_cm ** 0.31) * 0.001, capped at 0.0028,
\* rounded to four decimals
CalcEpsC1 ==
    /\ pc = "eps_c1"
    /\ LET Capped(e) == IF FlGt(e, FlDec(28, 4)) THEN FlDec(28, 4) ELSE e
       IN  eps_c1' =
               Round4(Capped(FlMul(FlMul(FlDec(7, 1), FlPow(f_cm, FlDec(31, 2))),
                                   FlDec(1, 3))))
    /\ pc' = "eps_cu1"
    /\ UNCHANGED <<fck, f_cm, E_cm_GPa, E_cm_MPa, eps_cu1, strain_values,
                   eta_values, k, stress_values, elastic_strain_values,
                   inelastic_strain_values, mask, damage_values,
                   plastic_strain_values, raw_inelastic, raw_damage,
                   raw_plastic, start_index, export_data, export_damage_data>>

\* CalcEpsCu1 with the comparison <= in place of <
CalcEpsCu1_Inclusive ==
    /\ pc = "eps_cu1"
    /\ eps_cu1' =
         IF FlLe(fck, FlInt(50)) THEN FlDec(35, 4)
         ELSE FlMul(FlAdd(FlDec(28, 1),
                          FlMul(FlInt(27),
                                FlPow4(FlDiv(FlSub(FlInt(98), f_cm), FlInt(100))))),
                    FlDec(1, 3))
    /\ pc' = "strain"
    /\ UNCHANGED <<fck, f_cm, E_cm_GPa, E_cm_MPa, eps_c1, strain_values,
                   eta_values, k, stress_values, elastic_strain_values,
                   inelastic_strain_values, mask, damage_values,
                   plastic_strain_values, raw_inelastic, raw_damage,
                   raw_plastic, start_index, export_data, export_damage_data>>

\* lines 34-37: the ultimate strain, constant below 50 MPa
CalcEpsCu1 ==
    /\ pc = "eps_cu1"
    /\ eps_cu1' =
         IF FlLt(fck, FlInt(50)) THEN FlDec(35, 4)
         ELSE FlMul(FlAdd(FlDec(28, 1),
                          FlMul(FlInt(27),
                                FlPow4(FlDiv(FlSub(FlInt(98), f_cm), FlInt(100))))),
                    FlDec(1, 3))
    /\ pc' = "strain"
    /\ UNCHANGED <<fck, f_cm, E_cm_GPa, E_cm_MPa, eps_c1, strain_values,
                   eta_values, k, stress_values, elastic_strain_values,
                   inelastic_strain_values, mask, damage_values,
                   plastic_strain_values, raw_inelastic, raw_damage,
                   raw_plastic, start_index, export_data, export_damage_data>>

\* line 41: strain_values = np.arange(0, eps_cu1 + 0.0001, 0.0001)
CalcStrain ==
    /\ pc = "strain"
    /\ strain_values' = Arange(FlAdd(eps_cu1, FlDec(1, 4)), FlDec(1, 4))
    /\ pc' = "eta"
    /\ UNCHANGED <<fck, f_cm, E_cm_GPa, E_cm_MPa, eps_c1, eps_cu1,
                   eta_values, k, stress_values, elastic_strain_values,
                   inelastic_strain_values, mask, damage_values,
                   plastic_strain_values, raw_inelastic, raw_damage,
                   raw_plastic, start_index, export_data, export_damage_data>>

\* line 45: eta_values = strain_values / eps_c1
CalcEta ==
    /\ pc = "eta"
    /\ eta_values' = [i \in 1..Len(strain_values) |->
                        FlDiv(strain_values[i], eps_c1)]
    /\ pc' = "k"
    /\ UNCHANGED <<fck, f_cm, E_cm_GPa, E_cm_MPa, eps_c1, eps_cu1,
                   strain_values, k, stress_values, elastic_strain_values,
                   inelastic_strain_values, mask, damage_values,
                   plastic_strain_values, raw_inelastic, raw_damage,
                   raw_plastic, start_index, export_data, export_damage_data>>

\* line 48: k = 1.05 * E_cm_MPa * abs(eps_c1) / f_cm
CalcK ==
    /\ pc = "k"
    /\ k' = FlDiv(FlMul(FlMul(FlDec(105, 2), E_cm_MPa), FlAbs(eps_c1)), f_cm)
    /\ pc' = "stress"
    /\ UNCHANGED <<fck, f_cm, E_cm_GPa, E_cm_MPa, eps_c1, eps_cu1,
                   strain_values, eta_values, stress_values,
                   elastic_strain_values, inelastic_strain_values, mask,
                   damage_values, plastic_strain_values, raw_inelastic,
                   raw_damage, raw_plastic, start_index, export_data,
                   export_damage_data>>

\* line 52: stress_values =
\*   f_cm * ((k * eta - eta ** 2) / (1 + (k - 2) * eta))
CalcStress ==
    /\ pc = "stress"
    /\ stress_values' = [i \in 1..Len(eta_values) |->
         LET Curve(eta) ==
                 FlDiv(FlSub(FlMul(k, eta), FlMul(eta, eta)),
                       FlAdd(FlInt(1), FlMul(FlSub(k, FlInt(2)), eta)))
         IN  FlMul(f_cm, Curve(eta_values[i]))]
    /\ pc' = "elastic"
    /\ UNCHANGED <<fck, f_cm, E_cm_GPa, E_cm_MPa, eps_c1, eps_cu1,
                   strain_values, eta_values, k, elastic_strain_values,
                   inelastic_strain_values, mask, damage_values,
                   plastic_strain_values, raw_inelastic, raw_damage,
                   raw_plastic, start_index, export_data, export_damage_data>>

\* line 55: elastic_strain_values = stress_values / E_cm_MPa
CalcElastic ==
    /\ pc = "elastic"
    /\ elastic_strain_values' = [i \in 1..Len(stress_values) |->
                                   FlDiv(stress_values[i], E_cm_MPa)]
    /\ pc' = "inelastic"
    /\ UNCHANGED <<fck, f_cm, E_cm_GPa, E_cm_MPa, eps_c1, eps_cu1,
                   strain_values, eta_values, k, stress_values,
                   inelastic_strain_values, mask, damage_values,
                   plastic_strain_values, raw_inelastic, raw_damage,
                   raw_plastic, start_index, export_data, export_damage_data>>

\* lines 58-60: zeros, mask = strain_values > eps_c1,
\* inelastic[mask] = strain[mask] - elastic[mask]
CalcInelastic ==
    /\ pc = "inelastic"
    /\ mask' = [i \in 1..Len(strain_values) |-> FlGt(strain_values[i], eps_c1)]
    /\ inelastic_strain_values' = [i \in 1..Len(strain_values) |->
         IF mask'[i] THEN FlSub(strain_values[i], elastic_strain_values[i])
         ELSE Zero]
    /\ raw_inelastic' = inelastic_strain_values'
    /\ pc' = "damage"
    /\ UNCHANGED <<fck, f_cm, E_cm_GPa, E_cm_MPa, eps_c1, eps_cu1,
                   strain_values, eta_values, k, stress_values,
                   elastic_strain_values, damage_values,
                   plastic_strain_values, raw_damage, raw_plastic,
                   start_index, export_data, export_damage_data>>

\* lines 63-64: zeros, damage[mask] = 1 - (stress[mask] / f_cm)
CalcDamage ==
    /\ pc = "damage"
    /\ damage_values' = [i \in 1..Len(strain_values) |->
         IF mask[i] THEN FlSub(FlInt(1), FlDiv(stress_values[i], f_cm))
         ELSE Zero]
    /\ raw_damage' = damage_values'
    /\ pc' = "plastic"
    /\ UNCHANGED <<fck, f_cm, E_cm_GPa, E_cm_MPa, eps_c1, eps_cu1,
                   strain_values, eta_values, k, stress_values,
                   elastic_strain_values, inelastic_strain_values, mask,
                   plastic_strain_values, raw_inelastic, raw_plastic,
                   start_index, export_data, export_damage_data>>

\* lines 67-71: zeros, plastic[mask] = inelastic[mask]
\*   - (damage[mask] / (1 - damage[mask])) * (stress[mask] / E_cm_MPa)
CalcPlastic ==
    /\ pc = "plastic"
    /\ plastic_strain_values' = [i \in 1..Len(strain_values) |->
         IF mask[i]
         THEN FlSub(inelastic_strain_values[i],
                    FlMul(FlDiv(damage_values[i],
                                FlSub(FlInt(1), damage_values[i])),
                          FlDiv(stress_values[i], E_cm_MPa)))
         ELSE Zero]
    /\ raw_plastic' = plastic_strain_values'
    /\ pc' = "norm_inelastic"
    /\ UNCHANGED <<fck, f_cm, E_cm_GPa, E_cm_MPa, eps_c1, eps_cu1,
                   strain_values, eta_values, k, stress_values,
                   elastic_strain_values, inelastic_strain_values, mask,
                   damage_values, raw_inelastic, raw_damage, start_index,
                   export_data, export_damage_data>>

\* NormInelastic normalizing the stress as well
NormInelastic_AlsoStress ==
    /\ pc = "norm_inelastic"
    /\ inelastic_strain_values' =
         ensure_non_negative_and_monotonic(inelastic_strain_values)
    /\ stress_values' = ensure_non_negative_and_monotonic(stress_values)
    /\ pc' = "norm_plastic"
    /\ UNCHANGED <<fck, f_cm, E_cm_GPa, E_cm_MPa, eps_c1, eps_cu1,
                   strain_values, eta_values, k,
                   elastic_strain_values, mask, damage_values,
                   plastic_strain_values, raw_inelastic, raw_damage,
                   raw_plastic, start_index, export_data, export_damage_data>>

\* line 78: inelastic_strain_values =
\*   ensure_non_negative_and_monotonic(inelastic_strain_values)
NormInelastic ==
    /\ pc = "norm_inelastic"
    /\ inelastic_strain_values' =
         ensure_non_negative_and_monotonic(inelastic_strain_values)
    /\ pc' = "norm_plastic"
    /\ UNCHANGED <<fck, f_cm, E_cm_GPa, E_cm_MPa, eps_c1, eps_cu1,
                   strain_values, eta_values, k, stress_values,
                   elastic_strain_values, mask, damage_values,
                   plastic_strain_values, raw_inelastic, raw_damage,
                   raw_plastic, start_index, export_data, export_damage_data>>

\* NormPlastic recomputing the plastic strain from the inelastic strain as
\* normalized by the line before
NormPlastic_Feedback ==
    /\ pc = "norm_plastic"
    /\ plastic_strain_values' =
         ensure_non_negative_and_monotonic(
             [i \in 1..Len(strain_values) |->
                 IF mask[i]
                 THEN FlSub(inelastic_strain_values[i],
                            FlMul(FlDiv(damage_values[i],
                                        FlSub(FlInt(1), damage_values[i])),
                                  FlDiv(stress_values[i], E_cm_MPa)))
                 ELSE Zero])
    /\ pc' = "norm_damage"
    /\ UNCHANGED <<fck, f_cm, E_cm_GPa, E_cm_MPa, eps_c1, eps_cu1,
                   strain_values, eta_values, k, stress_values,
                   elastic_strain_values, inelastic_strain_values, mask,
                   damage_values, raw_inelastic, raw_damage, raw_plastic,
                   start_index, export_data, export_damage_data>>

\* line 79: plastic_strain_values =
\*   ensure_non_negative_and_monotonic(plastic_strain_values)
NormPlastic ==
    /\ pc = "norm_plastic"
    /\ plastic_strain_values' =
         ensure_non_negative_and_monotonic(plastic_strain_values)
    /\ pc' = "norm_damage"
    /\ UNCHANGED <<fck, f_cm, E_cm_GPa, E_cm_MPa, eps_c1, eps_cu1,
                   strain_values, eta_values, k, stress_values,
                   elastic_strain_values, inelastic_strain_values, mask,
                   damage_values, raw_inelastic, raw_damage, raw_plastic,
                   start_index, export_data, export_damage_data>>

\* line 80: damage_values = ensure_non_negative_and_monotonic(damage_values)
NormDamage ==
    /\ pc = "norm_damage"
    /\ damage_values' = ensure_non_negative_and_monotonic(damage_values)
    /\ pc' = "start_index"
    /\ UNCHANGED <<fck, f_cm, E_cm_GPa, E_cm_MPa, eps_c1, eps_cu1,
                   strain_values, eta_values, k, stress_values,
                   elastic_strain_values, inelastic_strain_values, mask,
                   plastic_strain_values, raw_inelastic, raw_damage,
                   raw_plastic, start_index, export_data, export_damage_data>>

\* CalcStartIndex with the comparison > in place of >=
CalcStartIndex_Strict ==
    /\ pc = "start_index"
    /\ start_index' = ArgmaxTrue({i \in 1..Len(strain_values) :
                                    FlGt(strain_values[i], eps_c1)})
    /\ pc' = "export_data"
    /\ UNCHANGED <<fck, f_cm, E_cm_GPa, E_cm_MPa, eps_c1, eps_cu1,
                   strain_values, eta_values, k, stress_values,
                   elastic_strain_values, inelastic_strain_values, mask,
                   damage_values, plastic_strain_values, raw_inelastic,
                   raw_damage, raw_plastic, export_data, export_damage_data>>

\* line 83: start_index = np.argmax(strain_values >= eps_c1)
CalcStartIndex ==
    /\ pc = "start_index"
    /\ start_index' = ArgmaxTrue({i \in 1..Len(strain_values) :
                                    FlGe(strain_values[i], eps_c1)})
    /\ pc' = "export_data"
    /\ UNCHANGED <<fck, f_cm, E_cm_GPa, E_cm_MPa, eps_c1, eps_cu1,
                   strain_values, eta_values, k, stress_values,
                   elastic_strain_values, inelastic_strain_values, mask,
                   damage_values, plastic_strain_values, raw_inelastic,
                   raw_damage, raw_plastic, export_data, export_damage_data>>

\* lines 84-88: the rows (Stress, Inelastic Strain) from start_index on
ExportData ==
    /\ pc = "export_data"
    /\ export_data' = [i \in 1..(Len(stress_values) - start_index) |->
         [Stress |-> stress_values[start_index + i],
          InelasticStrain |-> inelastic_strain_values[start_index + i]]]
    /\ pc' = "export_damage_data"
    /\ UNCHANGED <<fck, f_cm, E_cm_GPa, E_cm_MPa, eps_c1, eps_cu1,
                   strain_values, eta_values, k, stress_values,
                   elastic_strain_values, inelastic_strain_values, mask,
                   damage_values, plastic_strain_values, raw_inelastic,
                   raw_damage, raw_plastic, start_index, export_damage_data>>

\* lines 92-96: the rows (Damage, Inelastic Strain) from start_index on
ExportDamageData ==
    /\ pc = "export_damage_data"
    /\ export_damage_data' = [i \in 1..(Len(damage_values) - start_index) |->
         [Damage |-> damage_values[start_index + i],
          InelasticStrain |-> inelastic_strain_values[start_index + i]]]
    /\ pc' = "plot"
    /\ UNCHANGED <<fck, f_cm, E_cm_GPa, E_cm_MPa, eps_c1, eps_cu1,
                   strain_values, eta_values, k, stress_values,
                   elastic_strain_values, inelastic_strain_values, mask,
                   damage_values, plastic_strain_values, raw_inelastic,
                   raw_damage, raw_plastic, start_index, export_data>>

\* lines 99-133: the four figures; they read the arrays and write none
Plot ==
    /\ pc = "plot"
    /\ pc' = "done"
    /\ UNCHANGED <<fck, f_cm, E_cm_GPa, E_cm_MPa, eps_c1, eps_cu1,
                   strain_values, eta_values, k, stress_values,
                   elastic_strain_values, inelastic_strain_values, mask,
                   damage_values, plastic_strain_values, raw_inelastic,
                   raw_damage, raw_plastic, start_index, export_data,
                   export_damage_data>>

Next ==
    \/ ReadFck
    \/ CalcFcm
    \/ CalcEcm
    \/ CalcEpsC1
    \/ CalcEpsCu1
    \/ CalcStrain
    \/ CalcEta
    \/ CalcK
    \/ CalcStress
    \/ CalcElastic
    \/ CalcInelastic
    \/ CalcDamage
    \/ CalcPlastic
    \/ NormInelastic
    \/ NormPlastic
    \/ NormDamage
    \/ CalcStartIndex
    \/ ExportData
    \/ ExportDamageData
    \/ Plot

Spec == Init /\ [][Next]_vars

(***************************************************************************)
(* Vocabulary of the properties.                                           *)
(***************************************************************************)
\* the statement groups in program order; pc names the one to run next
Steps ==
    <<"input", "f_cm", "E_cm", "eps_c1", "eps_cu1", "strain", "eta", "k",
      "stress", "elastic", "inelastic", "damage", "plastic", "norm_inelastic",
      "norm_plastic", "norm_damage", "start_index", "export_data",
      "export_damage_data", "plot", "done">>

Pos(label) == CHOOSE i \in 1..Len(Steps) : Steps[i] = label

\* every statement group before the one named has run
Reached(label) == Pos(pc) >= Pos(label)

\* x is max(0, raw[1], ..., raw[i])
IsRunningMax(x, raw, i) ==
    /\ FlGe(x, Zero)
    /\ \A j \in 1..i : FlGe(x, raw[j])
    /\ FlEq(x, Zero) \/ \E j \in 1..i : FlEq(x, raw[j])

\* seq is non-negative, non-decreasing and the clamped running maximum of raw
IsNormalizationOf(seq, raw) ==
    /\ Len(seq) = Len(raw)
    /\ \A i \in 1..Len(seq) : FlGe(seq[i], Zero)
    /\ \A i \in 1..(Len(seq) - 1) : FlLe(seq[i], seq[i + 1])
    /\ \A i \in 1..Len(seq) : IsRunningMax(seq[i], raw, i)

\* C1: after the normalization pass each of the three sequences is
\* non-negative at every index, non-decreasing over the full sequence, and
\* element i equals max(0, maximum of the raw elements at indices <= i).
C1_NormalizedRunningMax ==
    /\ Reached("norm_plastic") =>
         IsNormalizationOf(inelastic_strain_values, raw_inelastic)
    /\ Reached("norm_damage") =>
         IsNormalizationOf(plastic_strain_values, raw_plastic)
    /\ Reached("start_index") =>
         IsNormalizationOf(damage_values, raw_damage)

\* C2: after normalization the three sequences are exactly 0 at every index
\* whose strain is <= eps_c1, and the index where strain equals eps_c1 is the
\* first exported row, so the first exported row carries zeros.
C2_ZeroUpToPeak ==
    Reached("export_data") =>
        /\ \A i \in 1..Len(strain_values) :
             FlLe(strain_values[i], eps_c1) =>
                 /\ inelastic_strain_values[i] = Zero
                 /\ plastic_strain_values[i] = Zero
                 /\ damage_values[i] = Zero
        /\ FlEq(strain_values[start_index + 1], eps_c1)
        /\ inelastic_strain_values[start_index + 1] = Zero

\* the positions (1-based) whose strain is at least eps_c1
AtOrPastPeak == {i \in 1..Len(strain_values) : FlGe(strain_values[i], eps_c1)}

\* C3: start_index is the first index whose strain is >= eps_c1, and 0 when
\* there is none; each exported table has len(strain_values) - start_index
\* rows, row r taken from strain index start_index + r, in index order.
C3_StartIndexAndRows ==
    /\ Reached("export_data") =>
         /\ AtOrPastPeak = {} => start_index = 0
         /\ AtOrPastPeak # {} =>
              /\ start_index + 1 \in AtOrPastPeak
              /\ \A j \in 1..start_index : j \notin AtOrPastPeak
    /\ Reached("export_damage_data") =>
         /\ Len(export_data) = Len(strain_values) - start_index
         /\ \A r \in 1..Len(export_data) :
              /\ export_data[r].Stress = stress_values[start_index + r]
              /\ export_data[r].InelasticStrain =
                     inelastic_strain_values[start_index + r]
    /\ Reached("plot") =>
         /\ Len(export_damage_data) = Len(strain_values) - start_index
         /\ \A r \in 1..Len(export_damage_data) :
              /\ export_damage_data[r].Damage = damage_values[start_index + r]
              /\ export_damage_data[r].InelasticStrain =
                     inelastic_strain_values[start_index + r]

\* C3 witness: a finished run whose export starts at a later index than 0, at
\* the index where the strain equals eps_c1, with rows in both tables
C3_Witness ==
    /\ pc = "done"
    /\ start_index > 0
    /\ FlEq(strain_values[start_index + 1], eps_c1)
    /\ Len(export_data) > 1
    /\ Len(export_damage_data) = Len(export_data)

\* C4: strain_values starts at 0, is strictly increasing with the fixed step
\* 0.0001, stays inside the half-open range [0, eps_cu1 + 0.0001), and ends
\* at the first value >= eps_cu1: the last element is >= eps_cu1 and every
\* earlier one is < eps_cu1; f_ck = 30 gives 36 points.
C4_StrainGrid ==
    Reached("eta") =>
        LET n == Len(strain_values)
        IN  /\ n >= 1
            /\ strain_values[1] = Zero
            /\ \A i \in 1..(n - 1) :
                 /\ FlLt(strain_values[i], strain_values[i + 1])
                 /\ strain_values[i + 1] = FlMul(FlInt(i), FlDec(1, 4))
            /\ \A i \in 1..n :
                 FlLt(strain_values[i], FlAdd(eps_cu1, FlDec(1, 4)))
            /\ FlGe(strain_values[n], eps_cu1)
            /\ \A i \in 1..(n - 1) : FlLt(strain_values[i], eps_cu1)
            /\ fck = FlInt(30) => n = 36

\* C5: every element of damage_values lies in [0, 1), and the divisor
\* 1 - damage of the plastic-strain formula is positive at every index whose
\* strain exceeds eps_c1.
C5_DamageBelowOne ==
    /\ Reached("plastic") =>
         \A i \in 1..Len(raw_damage) :
             mask[i] => FlGt(FlSub(FlInt(1), raw_damage[i]), Zero)
    /\ Reached("start_index") =>
         \A i \in 1..Len(damage_values) :
             FlGe(damage_values[i], Zero) /\ FlLt(damage_values[i], FlInt(1))

\* C6: 0 < eps_c1 <= 0.0028, eps_cu1 >= 0.0028 on either branch, hence
\* eps_cu1 >= eps_c1; some strain index has strain >= eps_c1, so start_index
\* is an index that matches, and each export has at least one row.
C6_UltimateNotBelowPeak ==
    /\ Reached("eps_cu1") =>
         FlGt(eps_c1, Zero) /\ FlLe(eps_c1, FlDec(28, 4))
    /\ Reached("strain") =>
         FlGe(eps_cu1, FlDec(28, 4)) /\ FlGe(eps_cu1, eps_c1)
    /\ Reached("eta") => AtOrPastPeak # {}
    /\ Reached("export_data") => start_index + 1 \in AtOrPastPeak
    /\ Reached("export_damage_data") => Len(export_data) >= 1
    /\ Reached("plot") => Len(export_damage_data) >= 1

\* C6 witness: a finished run of a strength above 100 MPa, where the cap
\* decides eps_c1 and the quartic branch decides eps_cu1
C6_Witness ==
    /\ pc = "done"
    /\ FlGt(fck, FlInt(100))
    /\ eps_c1 = FlDec(28, 4)
    /\ FlGt(eps_cu1, eps_c1)
    /\ Len(export_data) >= 1

\* the quartic branch of eps_cu1 for a given f_ck
QuarticOf(x) ==
    FlMul(FlAdd(FlDec(28, 1),
                FlMul(FlInt(27),
                      FlPow4(FlDiv(FlSub(FlInt(98), FlAdd(x, FlInt(8))),
                                   FlInt(100))))),
          FlDec(1, 3))

\* C7: eps_cu1 is 0.0035 exactly when f_ck < 50 and the quartic expression
\* of f_cm = f_ck + 8 when f_ck >= 50; 49 takes the constant branch and 50
\* the quartic one.
C7_UltimateStrainBranch ==
    Reached("strain") =>
        /\ FlLt(fck, FlInt(50)) => eps_cu1 = FlDec(35, 4)
        /\ FlGe(fck, FlInt(50)) => eps_cu1 = QuarticOf(fck)
        /\ fck = FlInt(49) => eps_cu1 = FlDec(35, 4)
        /\ fck = FlInt(50) => eps_cu1 = QuarticOf(FlInt(50))

\* C7 witness: f_ck = 50 has taken the quartic branch, whose value there is
\* not the constant 0.0035
C7_Witness ==
    /\ Reached("strain")
    /\ fck = FlInt(50)
    /\ eps_cu1 # FlDec(35, 4)

\* the plastic strain of lines 67-71 from given inelastic and damage arrays
PlasticOf(inel, dmg) ==
    [i \in 1..Len(strain_values) |->
        IF mask[i]
        THEN FlSub(inel[i],
                   FlMul(FlDiv(dmg[i], FlSub(FlInt(1), dmg[i])),
                         FlDiv(stress_values[i], E_cm_MPa)))
        ELSE Zero]

\* what the values hold once the statements before pc have run
C9_DataFlow ==
    /\ Reached("norm_inelastic") =>
         raw_plastic = PlasticOf(raw_inelastic, raw_damage)
    /\ Reached("norm_plastic") =>
         inelastic_strain_values =
             ensure_non_negative_and_monotonic(raw_inelastic)
    /\ Reached("norm_damage") =>
         plastic_strain_values = ensure_non_negative_and_monotonic(raw_plastic)
    /\ Reached("start_index") =>
         damage_values = ensure_non_negative_and_monotonic(raw_damage)

\* normalizing one of the three sequences changes neither of the other two
C9_Independent ==
    /\ pc = "norm_inelastic" =>
         /\ plastic_strain_values' = plastic_strain_values
         /\ damage_values' = damage_values
    /\ pc = "norm_plastic" =>
         /\ inelastic_strain_values' = inelastic_strain_values
         /\ damage_values' = damage_values
    /\ pc = "norm_damage" =>
         /\ inelastic_strain_values' = inelastic_strain_values
         /\ plastic_strain_values' = plastic_strain_values

\* C9: raw plastic strain is computed from the raw inelastic strain and the
\* raw damage; each normalized sequence is the normalization of its own raw
\* sequence, so nothing normalized is fed back into plastic_strain_values,
\* and normalizing one sequence changes neither of the other two.
C9_NoFeedback == []C9_DataFlow /\ [][C9_Independent]_vars

\* C9 witness: a run in which normalization has changed the inelastic strain
\* and the damage, so that feeding them back would have shown
C9_Witness ==
    /\ pc = "done"
    /\ inelastic_strain_values # raw_inelastic
    /\ damage_values # raw_damage
    /\ plastic_strain_values # PlasticOf(inelastic_strain_values, damage_values)

\* the stress of line 52 at one strain value
StressAt(strain) ==
    LET Curve(eta) ==
            FlDiv(FlSub(FlMul(k, eta), FlMul(eta, eta)),
                  FlAdd(FlInt(1), FlMul(FlSub(k, FlInt(2)), eta)))
    IN  FlMul(f_cm, Curve(FlDiv(strain, eps_c1)))

\* the normalization pass keeps strain, stress and elastic strain, and keeps
\* every length
C10_Frame ==
    pc \in {"norm_inelastic", "norm_plastic", "norm_damage"} =>
        /\ strain_values' = strain_values
        /\ stress_values' = stress_values
        /\ elastic_strain_values' = elastic_strain_values
        /\ Len(inelastic_strain_values') = Len(inelastic_strain_values)
        /\ Len(plastic_strain_values') = Len(plastic_strain_values)
        /\ Len(damage_values') = Len(damage_values)

\* all sequences are index-aligned, and row r of either table holds the
\* values at strain index start_index + r
C10_Aligned ==
    /\ Reached("start_index") =>
         \A seq \in {stress_values, elastic_strain_values,
                     inelastic_strain_values, plastic_strain_values,
                     damage_values} : Len(seq) = Len(strain_values)
    /\ Reached("export_damage_data") =>
         \A r \in 1..Len(export_data) :
             /\ export_data[r].Stress = StressAt(strain_values[start_index + r])
             /\ export_data[r].InelasticStrain =
                    inelastic_strain_values[start_index + r]
    /\ Reached("plot") =>
         /\ Len(export_damage_data) = Len(export_data)
         /\ \A r \in 1..Len(export_damage_data) :
              /\ export_damage_data[r].Damage = damage_values[start_index + r]
              /\ export_damage_data[r].InelasticStrain =
                     export_data[r].InelasticStrain

\* C10: the normalization pass leaves strain_values, stress_values and
\* elastic_strain_values unchanged and keeps the length and index alignment
\* of all sequences; the exported stress is the raw formula value at its
\* index, row r of each table pairs the values at strain index
\* start_index + r, and both tables carry the same inelastic-strain column.
C10_NormalizationFrame == []C10_Aligned /\ [][C10_Frame]_vars

\* C10 witness: a finished run whose exported stress column decreases
\* somewhere, as a normalized column could not
C10_Witness ==
    /\ pc = "done"
    /\ \E r \in 1..(Len(export_data) - 1) :
           FlLt(export_data[r + 1].Stress, export_data[r].Stress)
    /\ Len(export_damage_data) = Len(export_data)

=============================================================================
